---- MODULE Spec2Model ----
(***************************************************************************)
(* SyncForge: the lifecycle of one Run (one update/integration pair) as    *)
(* seen by the dashboard.  The React client under frontend/src is modelled *)
(* from its source: the manual controls menu, the agent panel with its     *)
(* optimistic follow-up overlay and its commit-SHA gated waiting mode.     *)
(* The backend that stores the Run and merges the agent, branch and pull   *)
(* request signals is not part of the TypeScript sources; its merge step   *)
(* and its command handlers are modelled from spec.md (sections 3 and 4).  *)
(***************************************************************************)
EXTENDS Integers, Sequences, FiniteSets, TLC

VARIABLES
    run,               \* the Run record in the backend store
    manual,            \* names of the Run fields written by a manual override
    message,           \* panel: text in the follow-up input
    pendingMessage,    \* panel: text of the optimistic overlay, or Null
    waitingForUpdate,  \* panel: waiting mode
    lastCommitSha,     \* panel: baseline commit SHA, or Null
    followup,          \* panel: text of the sendFollowup request in flight, or Null
    baselinePending,   \* panel: onSuccess is awaiting checkBranchStatus
    branchCalls,       \* panel: the checkBranch call in flight (its closure), if any
    mounted,           \* panel: the component is mounted (its effects are live)
    others,            \* the other Runs of the same update, as the card lists them
    lastAction         \* history: the operation that produced this state

Null == "null"

(* ------------------------------ bounds --------------------------------- *)
MaxConv == 2
MaxOthers == 2

(* ------------------------------ domains -------------------------------- *)
Statuses ==
    {"pending", "in_progress", "needs_review", "ready_to_merge",
     "skipped", "complete", "cancelled"}

BranchNames == {"br"}
Questions == {"q"}
PrSignals == {"open", "merged", "closed"}

UserMsg(t) == [type |-> "user_message", text |-> t]
AssistantMsg(t) == [type |-> "assistant_message", text |-> t]

ConversationMessage == {UserMsg("a"), AssistantMsg("r")}

IsPrefix(s, t) == Len(s) <= Len(t) /\ SubSeq(t, 1, Len(s)) = s

(* ------------------------- the Run record ------------------------------ *)
NewRun ==
    [status             |-> "pending",
     pr_url             |-> Null,
     pr_merged          |-> FALSE,
     pr_closed          |-> FALSE,
     agent_question     |-> Null,
     cursor_agent_id    |-> Null,
     cursor_branch_name |-> Null,
     conversation       |-> << >>]

Terminal(s) == s \in {"complete", "cancelled"}

(* The lifecycle graph of spec.md 4.1. *)
NonTerminalStatuses == {"pending", "in_progress", "needs_review", "ready_to_merge"}

AutomaticEdges ==
    {<<"pending", "in_progress">>,
     <<"in_progress", "needs_review">>,
     <<"needs_review", "in_progress">>,
     <<"in_progress", "ready_to_merge">>,
     <<"ready_to_merge", "complete">>}
    \cup {<<s, "cancelled">> : s \in NonTerminalStatuses}

LifecycleEdges ==
    AutomaticEdges
    \cup {<<"cancelled", "ready_to_merge">>, <<"complete", "ready_to_merge">>}
    \cup {<<s, "skipped">> : s \in Statuses \ {"skipped"}}

(* ----------------- the backend merge step (spec.md) -------------------- *)
(* A field written by a manual override is left alone by automatic merges. *)
(* Mutation: manual writes are not remembered by the merge step. *)
KeepNothing(m, r, f, v) == v

Keep(m, r, f, v) == IF f \in m THEN r[f] ELSE v

(* Mutation: the agent's self-report resets what the PR signal recorded. *)
MergeAgentSignalClearsPr(r, m, sig) ==
    IF Terminal(r.status) \/ r.cursor_agent_id = Null THEN r
    ELSE [r EXCEPT
          !.agent_question = sig.question,
          !.pr_merged = r.pr_merged /\ sig.finished,
          !.status =
              Keep(m, r, "status",
                   IF r.status = "in_progress" /\ sig.question # Null
                   THEN "needs_review"
                   ELSE r.status)]

(* Agent signal: [question, finished, branch_name, conversation]. *)
MergeAgentSignal(r, m, sig) ==
    IF Terminal(r.status) \/ r.cursor_agent_id = Null THEN r
    ELSE [r EXCEPT
          !.agent_question = sig.question,
          !.conversation =
              IF IsPrefix(r.conversation, sig.conversation)
              THEN sig.conversation ELSE r.conversation,
          !.cursor_branch_name =
              IF r.cursor_branch_name = Null
              THEN Keep(m, r, "cursor_branch_name", sig.branch_name)
              ELSE r.cursor_branch_name,
          !.status =
              Keep(m, r, "status",
                   IF r.status = "in_progress" /\ sig.question # Null
                   THEN "needs_review"
                   ELSE IF r.status = "in_progress" /\ sig.finished
                   THEN "ready_to_merge"
                   ELSE r.status)]

(* Mutation: a discovered PR makes the Run ready_to_merge whatever its state. *)
MergeBranchSignalAlways(r, m, sig) ==
    IF Terminal(r.status) THEN r
    ELSE LET url == IF r.pr_url = Null
                    THEN Keep(m, r, "pr_url", sig.pr_url)
                    ELSE r.pr_url
         IN [r EXCEPT
             !.pr_url = url,
             !.status = Keep(m, r, "status",
                             IF url # Null THEN "ready_to_merge" ELSE r.status)]

(* Branch signal: [branch_exists, pr_url]. *)
MergeBranchSignal(r, m, sig) ==
    IF Terminal(r.status) THEN r
    ELSE LET url == IF r.pr_url = Null
                    THEN Keep(m, r, "pr_url", sig.pr_url)
                    ELSE r.pr_url
         IN [r EXCEPT
             !.pr_url = url,
             !.status =
                 Keep(m, r, "status",
                      IF /\ r.status = "in_progress"
                         /\ r.agent_question = Null
                         /\ url # Null
                         /\ ~r.pr_merged /\ ~r.pr_closed
                      THEN "ready_to_merge"
                      ELSE r.status)]

(* Mutation: a merged PR advances the Run one status per merge. *)
MergePRSignalChain(r, m, sig) ==
    IF Terminal(r.status) \/ r.pr_url = Null THEN r
    ELSE LET merged == Keep(m, r, "pr_merged",
                            r.pr_merged \/ (sig = "merged" /\ ~r.pr_closed))
             closed == Keep(m, r, "pr_closed",
                            r.pr_closed \/ (sig = "closed" /\ ~r.pr_merged))
         IN [r EXCEPT
             !.pr_merged = merged,
             !.pr_closed = closed,
             !.status =
                 Keep(m, r, "status",
                      IF r.status = "ready_to_merge" /\ sig = "merged" /\ merged
                      THEN "complete"
                      ELSE IF /\ r.status = "in_progress"
                              /\ r.agent_question = Null
                              /\ sig \in {"open", "merged"} /\ ~closed
                      THEN "ready_to_merge"
                      ELSE r.status)]

(* Mutation: the merge step does not look at the Run being terminal. *)
MergePRSignalNoGuard(r, m, sig) ==
    IF r.pr_url = Null THEN r
    ELSE LET merged == Keep(m, r, "pr_merged",
                            r.pr_merged \/ (sig = "merged" /\ ~r.pr_closed))
             closed == Keep(m, r, "pr_closed",
                            r.pr_closed \/ (sig = "closed" /\ ~r.pr_merged))
         IN [r EXCEPT
             !.pr_merged = merged,
             !.pr_closed = closed,
             !.status =
                 Keep(m, r, "status",
                      IF r.status = "ready_to_merge" /\ sig = "merged" /\ merged
                      THEN "complete"
                      ELSE r.status)]

(* Pull request signal: "open", "merged" or "closed". *)
MergePRSignal(r, m, sig) ==
    IF Terminal(r.status) \/ r.pr_url = Null THEN r
    ELSE LET merged == Keep(m, r, "pr_merged",
                            r.pr_merged \/ (sig = "merged" /\ ~r.pr_closed))
             closed == Keep(m, r, "pr_closed",
                            r.pr_closed \/ (sig = "closed" /\ ~r.pr_merged))
         IN [r EXCEPT
             !.pr_merged = merged,
             !.pr_closed = closed,
             !.status =
                 Keep(m, r, "status",
                      IF r.status = "ready_to_merge" /\ sig = "merged" /\ merged
                      THEN "complete"
                      ELSE IF /\ r.status = "in_progress"
                              /\ r.agent_question = Null
                              /\ sig = "open" /\ ~merged /\ ~closed
                      THEN "ready_to_merge"
                      ELSE r.status)]

(* ---------------- the backend command handlers (spec.md) --------------- *)
(* Manual Override Gate: the payload's fields are written as given. *)
ApplyOverride(r, payload) ==
    [f \in DOMAIN r |-> IF f \in DOMAIN payload THEN payload[f] ELSE r[f]]

LaunchAgent(r) ==
    IF r.status = "pending" /\ r.cursor_agent_id = Null
    THEN [r EXCEPT !.status = "in_progress", !.cursor_agent_id = "agent"]
    ELSE r

StopRun(r) ==
    IF Terminal(r.status) THEN r ELSE [r EXCEPT !.status = "cancelled"]

(* A follow-up is refused for a terminal Run and for a Run without agent. *)
(* Mutation: the command layer accepts a follow-up for any Run with an agent. *)
FollowupAllowedAnyStatus(r) == r.cursor_agent_id # Null

FollowupAllowed(r) == ~Terminal(r.status) /\ r.cursor_agent_id # Null

(* Mutation: the question is cleared by the next agent signal only. *)
AcceptFollowupKeepsQuestion(r) ==
    [r EXCEPT !.status = IF r.status = "needs_review" THEN "in_progress"
                         ELSE r.status]

(* Mutation: an answered question leaves the Run in needs_review. *)
AcceptFollowupKeepsStatus(r) == [r EXCEPT !.agent_question = Null]

AcceptFollowup(r) ==
    [r EXCEPT !.agent_question = Null,
              !.status = IF r.status = "needs_review" THEN "in_progress"
                         ELSE r.status]

(* ------------------------------ signals -------------------------------- *)
AgentSignals(r) ==
    { [question |-> q, finished |-> f, branch_name |-> b, conversation |-> c] :
        q \in Questions \cup {Null}, f \in BOOLEAN,
        b \in BranchNames \cup {Null},
        c \in {r.conversation}
              \cup {Append(r.conversation, msg) :
                      msg \in {x \in ConversationMessage :
                                 Len(r.conversation) < MaxConv}}
              \cup {SubSeq(r.conversation, 1, Len(r.conversation) - 1) :
                      k \in {x \in {1} : Len(r.conversation) > 0}} }

BranchSignals ==
    { [branch_exists |-> TRUE, pr_url |-> "X"],
      [branch_exists |-> TRUE, pr_url |-> Null],
      [branch_exists |-> FALSE, pr_url |-> Null] }

Act(name, kind, arg) == [name |-> name, kind |-> kind, arg |-> arg, base |-> ""]

(* --------------------- the view's copy of the Run ---------------------- *)
(* The `integration` prop.  The ['updates'] query is invalidated by every  *)
(* mutation and poll hit; the view is taken to hold the current Run.       *)
integration == run

(* ------------- the manual controls menu (ManualControlsMenu) ----------- *)
BranchPayload(branchInput) ==
    [cursor_branch_name |-> IF branchInput = "" THEN Null ELSE branchInput]

PrUrlPayload(prInput) ==
    [pr_url |-> IF prInput = "" THEN Null ELSE prInput]

MergedPayload == [pr_merged |-> TRUE]

ClosedPayload == [pr_closed |-> TRUE]

ReopenPayload == [pr_merged |-> FALSE, pr_closed |-> FALSE, status |-> "ready_to_merge"]

(* Mutation: Complete writes a status that is not complete. *)
CompletePayloadInProgress == [status |-> "in_progress"]

(* Mutation: Complete also resets the merged flag. *)
CompletePayloadClearsMerged == [status |-> "complete", pr_merged |-> FALSE]

CompletePayload == [status |-> "complete"]

SkipPayload == [status |-> "skipped"]

MergedOffered == ~integration.pr_merged

ClosedOffered == ~integration.pr_closed /\ ~integration.pr_merged

ReopenOffered == integration.pr_merged \/ integration.pr_closed

CompleteEnabled == integration.status # "complete"

SkipEnabled == integration.status # "skipped"

(* ------------------ the agent panel (IntegrationAgentPanel) ------------ *)
InputTexts == {"a", " a"}

(* String.prototype.trim on the input texts of the model. *)
Trim(t) == IF t = " a" THEN "a" ELSE t

Shas == {"s1", "s2"}

serverMessages == integration.conversation

messages ==
    IF pendingMessage # Null
    THEN Append(serverMessages, UserMsg(pendingMessage))
    ELSE serverMessages

UserIndexes(msgs) == {i \in DOMAIN msgs : msgs[i].type = "user_message"}

(* Index of messages.find(user_message), 0 when there is none. *)
planIndex ==
    IF UserIndexes(messages) = {} THEN 0
    ELSE CHOOSE i \in UserIndexes(messages) :
             \A j \in UserIndexes(messages) : i <= j

displayMessages ==
    IF planIndex = 0 THEN messages
    ELSE [i \in 1..(Len(messages) - 1) |->
            IF i < planIndex THEN messages[i] ELSE messages[i + 1]]

showConversationInput ==
    /\ \/ integration.status = "in_progress"
       \/ integration.status = "needs_review"
       \/ integration.status = "ready_to_merge"
       \/ integration.agent_question # Null
    /\ integration.cursor_agent_id # Null

PendingConfirmed ==
    /\ pendingMessage # Null
    /\ \E i \in DOMAIN serverMessages :
          /\ serverMessages[i].type = "user_message"
          /\ serverMessages[i].text = pendingMessage

AssistantIsLast ==
    /\ waitingForUpdate
    /\ Len(serverMessages) > 0
    /\ serverMessages[Len(serverMessages)].type = "assistant_message"

(* Mutation: the PR polling effect does not look at the status. *)
PRPollingActiveAnyStatus ==
    integration.pr_url # Null /\ ~integration.pr_merged

PRPollingActive ==
    /\ integration.pr_url # Null /\ ~integration.pr_merged
    /\ integration.status \notin {"cancelled", "skipped", "complete"}

(* Mutation: the branch polling effect does not look at pr_url. *)
BranchPollingActiveIgnoresPr ==
    /\ integration.cursor_branch_name # Null
    /\ integration.status \notin {"complete", "cancelled", "skipped", "ready_to_merge"}

BranchPollingActive ==
    /\ integration.pr_url = Null /\ integration.cursor_branch_name # Null
    /\ integration.status \notin {"complete", "cancelled", "skipped", "ready_to_merge"}

(* A loop exists while its effect has an interval: mounted, guard passed. *)
BranchLoopScheduled == mounted /\ BranchPollingActive

PRLoopScheduled == mounted /\ PRPollingActive

(* Mutation: any resolved fetch ends waiting mode. *)
ShaChangedAny(call, sha) == call.waiting /\ call.sha # Null

(* checkBranch, after its fetch resolved with last_commit_sha = sha. *)
ShaChanged(call, sha) == call.waiting /\ call.sha # Null /\ sha # call.sha

panelVars == <<message, pendingMessage, waitingForUpdate, lastCommitSha,
               followup, baselinePending, branchCalls, mounted>>

vars == <<run, manual, message, pendingMessage, waitingForUpdate, lastCommitSha,
          followup, baselinePending, branchCalls, mounted, others, lastAction>>

Init ==
    /\ run = NewRun
    /\ manual = {}
    /\ message = ""
    /\ pendingMessage = Null
    /\ waitingForUpdate = FALSE
    /\ lastCommitSha = Null
    /\ followup = Null
    /\ baselinePending = FALSE
    /\ branchCalls = {}
    /\ mounted = TRUE
    /\ others = << >>
    /\ lastAction = Act("Init", "init", "")

(* ------------------------- backend operations -------------------------- *)
(* UpdateDetailsModal: canStartAgents, startAgentsMutation. *)
StartAgents ==
    /\ integration.status = "pending" /\ integration.cursor_agent_id = Null
    /\ run' = LaunchAgent(run)
    /\ lastAction' = Act("StartAgents", "command", "")
    /\ UNCHANGED <<manual, panelVars, others>>

(* IntegrationHeader: the condition under which the Stop button is shown. *)
StopOffered ==
    integration.status = "in_progress" /\ integration.cursor_agent_id # Null

(* IntegrationHeader Stop button, stopMutation. *)
Stop ==
    /\ StopOffered
    /\ run' = StopRun(run)
    /\ lastAction' = Act("Stop", "command", "")
    /\ UNCHANGED <<manual, panelVars, others>>

(* sendFollowup as the backend handles it; the panel's side of a send is   *)
(* HandleSend .. FollowupDelivered below.                                   *)
FollowupCommand ==
    /\ showConversationInput
    /\ FollowupAllowed(run)
    /\ run' = AcceptFollowup(run)
    /\ lastAction' = Act("FollowupCommand", "command", "")
    /\ UNCHANGED <<manual, panelVars, others>>

AgentSignal ==
    /\ run.cursor_agent_id # Null
    /\ \E sig \in AgentSignals(run) :
         /\ run' = MergeAgentSignal(run, manual, sig)
         /\ lastAction' = Act("AgentSignal", "auto", "")
    /\ UNCHANGED <<manual, panelVars, others>>

BranchSignal ==
    /\ run.cursor_branch_name # Null
    /\ \E sig \in BranchSignals :
         /\ run' = MergeBranchSignal(run, manual, sig)
         /\ lastAction' = Act("BranchSignal", "auto", "")
    /\ UNCHANGED <<manual, panelVars, others>>

PRSignal ==
    /\ run.pr_url # Null
    /\ \E sig \in PrSignals :
         /\ run' = MergePRSignal(run, manual, sig)
         /\ lastAction' = Act("PRSignal", "auto", sig)
    /\ UNCHANGED <<manual, panelVars, others>>

(* mutation.mutate(payload): PATCH to the backend, which applies it. *)
Mutate(name, payload) ==
    /\ run' = ApplyOverride(run, payload)
    /\ manual' = manual \cup DOMAIN payload
    /\ lastAction' = Act(name, "manual", "")
    /\ UNCHANGED <<panelVars, others>>

EditBranch == \E branchInput \in BranchNames \cup {""} :
    Mutate("EditBranch", BranchPayload(branchInput))

EditPR == \E prInput \in {"Y", ""} :
    Mutate("EditPR", PrUrlPayload(prInput))

MarkMerged == MergedOffered /\ Mutate("MarkMerged", MergedPayload)

MarkClosed == ClosedOffered /\ Mutate("MarkClosed", ClosedPayload)

Reopen == ReopenOffered /\ Mutate("Reopen", ReopenPayload)

Complete == CompleteEnabled /\ Mutate("Complete", CompletePayload)

Skip == SkipEnabled /\ Mutate("Skip", SkipPayload)

(* --------------------------- panel operations -------------------------- *)
(* ConversationPanel textarea: onInputChange. *)
TypeMessage ==
    /\ mounted
    /\ showConversationInput
    /\ \E t \in InputTexts :
         /\ t # message
         /\ message' = t
    /\ lastAction' = Act("TypeMessage", "panel", "")
    /\ UNCHANGED <<others, mounted, run, manual, pendingMessage, waitingForUpdate, lastCommitSha,
                   followup, baselinePending, branchCalls>>

(* handleSend: followupMutation.mutate(message.trim()). *)
HandleSend ==
    /\ mounted
    /\ showConversationInput
    /\ Trim(message) # ""
    /\ followup = Null
    /\ followup' = Trim(message)
    /\ lastAction' = Act("HandleSend", "panel", "")
    /\ UNCHANGED <<others, mounted, run, manual, message, pendingMessage, waitingForUpdate,
                   lastCommitSha, baselinePending, branchCalls>>

(* The backend accepts the follow-up; followupMutation.onSuccess up to its  *)
(* await of checkBranchStatus.                                              *)
FollowupDelivered ==
    /\ followup # Null
    /\ FollowupAllowed(run)
    /\ run' = AcceptFollowup(run)
    /\ pendingMessage' = (IF message = "" THEN Null ELSE message)
    /\ message' = ""
    /\ waitingForUpdate' = TRUE
    /\ baselinePending' = TRUE
    /\ followup' = Null
    /\ lastAction' = Act("FollowupDelivered", "command", run.status)
    /\ UNCHANGED <<others, mounted, manual, lastCommitSha, branchCalls>>

(* Mutation: a failed send clears the input as a successful one does. *)
FollowupFailedClearsInput ==
    /\ followup # Null
    /\ followup' = Null
    /\ message' = ""
    /\ lastAction' = Act("FollowupFailed", "panel", "")
    /\ UNCHANGED <<others, mounted, run, manual, pendingMessage, waitingForUpdate,
                   lastCommitSha, baselinePending, branchCalls>>

(* sendFollowup throws: the mutation has no onError, nothing changes. *)
FollowupFailed ==
    /\ followup # Null
    /\ followup' = Null
    /\ lastAction' = Act("FollowupFailed", "panel", "")
    /\ UNCHANGED <<others, mounted, run, manual, message, pendingMessage, waitingForUpdate,
                   lastCommitSha, baselinePending, branchCalls>>

(* followupMutation.onSuccess after the await: the baseline SHA. *)
BaselineResult ==
    /\ baselinePending
    /\ baselinePending' = FALSE
    /\ \/ \E sha \in Shas \cup {Null} :
            lastCommitSha' = (IF sha # Null THEN sha ELSE lastCommitSha)
       \/ lastCommitSha' = lastCommitSha
    /\ lastAction' = Act("BaselineResult", "panel", "")
    /\ UNCHANGED <<others, mounted, run, manual, message, pendingMessage, waitingForUpdate,
                   followup, branchCalls>>

(* The effect on [serverMessages, pendingMessage, waitingForUpdate]. *)
ConversationEffect ==
    /\ mounted
    /\ PendingConfirmed \/ AssistantIsLast
    /\ pendingMessage' = (IF PendingConfirmed THEN Null ELSE pendingMessage)
    /\ waitingForUpdate' = (IF AssistantIsLast THEN FALSE ELSE waitingForUpdate)
    /\ lastCommitSha' = (IF AssistantIsLast THEN Null ELSE lastCommitSha)
    /\ lastAction' = Act("ConversationEffect", "panel", "")
    /\ UNCHANGED <<others, mounted, run, manual, message, followup, baselinePending, branchCalls>>

(* What a checkBranch call captures of waitingForUpdate and lastCommitSha,  *)
(* as far as its test reads them: `waitingForUpdate && lastCommitSha && ..` *)
(* short-circuits, so the SHA is read only when waiting is true.            *)
Closure ==
    [waiting |-> (waitingForUpdate /\ lastCommitSha # Null),
     sha |-> (IF waitingForUpdate THEN lastCommitSha ELSE Null)]

(* checkBranch is called by the branch polling effect and its interval. *)
CheckBranchStart ==
    /\ BranchLoopScheduled
    /\ branchCalls = {}
    /\ branchCalls' = branchCalls \cup {Closure}
    /\ lastAction' = Act("CheckBranchStart", "panel", "")
    /\ UNCHANGED <<others, mounted, run, manual, message, pendingMessage, waitingForUpdate,
                   lastCommitSha, followup, baselinePending>>

(* checkBranch: its checkBranchStatus fetch resolves. *)
CheckBranchResult ==
    \E call \in branchCalls, sha \in Shas \cup {Null} :
        /\ branchCalls' = branchCalls \ {call}
        /\ waitingForUpdate' =
               (IF mounted /\ ShaChanged(call, sha) THEN FALSE
                ELSE waitingForUpdate)
        /\ lastCommitSha' =
               (IF mounted /\ ShaChanged(call, sha) THEN Null
                ELSE lastCommitSha)
        /\ lastAction' = [name |-> "CheckBranchResult", kind |-> "panel",
                          arg |-> sha, base |-> call.sha]
        /\ UNCHANGED <<others, mounted, run, manual, message, pendingMessage, followup,
                       baselinePending>>

(* Mutation: a failed fetch is taken for a change of the branch. *)
CheckBranchFailedEndsWaiting ==
    \E call \in branchCalls :
        /\ branchCalls' = branchCalls \ {call}
        /\ waitingForUpdate' = FALSE
        /\ lastCommitSha' = Null
        /\ lastAction' = Act("CheckBranchFailed", "panel", "")
        /\ UNCHANGED <<others, mounted, run, manual, message, pendingMessage, followup,
                       baselinePending>>

(* checkBranch: its fetch throws and the catch logs it. *)
CheckBranchFailed ==
    \E call \in branchCalls :
        /\ branchCalls' = branchCalls \ {call}
        /\ lastAction' = Act("CheckBranchFailed", "panel", "")
        /\ UNCHANGED <<others, mounted, run, manual, message, pendingMessage, waitingForUpdate,
                       lastCommitSha, followup, baselinePending>>

(* What a getIntegrationPRStatus call can end as: a response, a transient   *)
(* failure, or the refusal of a missing or revoked credential.  The two     *)
(* failures reach the catch as the same Error.                              *)
PROutcomes == {"resolved", "error", "denied"}

(* checkPRStatus: every outcome only invalidates the query or logs. *)
CheckPRStatus ==
    /\ PRLoopScheduled
    /\ \E outcome \in PROutcomes :
         lastAction' = Act("CheckPRStatus", "panel", outcome)
    /\ UNCHANGED <<run, manual, panelVars, others>>

(* The view is torn down: both effects run their cleanup (clearInterval);  *)
(* a fetch in flight is not aborted, its setState calls are then ignored.  *)
Unmount ==
    /\ mounted
    /\ mounted' = FALSE
    /\ lastAction' = Act("Unmount", "panel", "")
    /\ UNCHANGED <<others, run, manual, message, pendingMessage, waitingForUpdate,
                   lastCommitSha, followup, baselinePending, branchCalls>>

Next ==
    \/ StartAgents
    \/ Stop
    \/ FollowupCommand
    \/ AgentSignal
    \/ BranchSignal
    \/ PRSignal
    \/ EditBranch
    \/ EditPR
    \/ MarkMerged
    \/ MarkClosed
    \/ Reopen
    \/ Complete
    \/ Skip

Spec == Init /\ [][Next]_vars

(* The agent panel with the backend operations that feed it. *)
NextPanel ==
    \/ StartAgents
    \/ Stop
    \/ AgentSignal
    \/ BranchSignal
    \/ PRSignal
    \/ TypeMessage
    \/ HandleSend
    \/ FollowupDelivered
    \/ FollowupFailed
    \/ BaselineResult
    \/ ConversationEffect
    \/ CheckBranchStart
    \/ CheckBranchResult
    \/ CheckBranchFailed
    \/ CheckPRStatus

SpecPanel == Init /\ [][NextPanel]_vars

(* The polling loops of the panel next to everything that changes the Run. *)
NextPolling ==
    \/ Next
    \/ CheckBranchStart
    \/ CheckBranchResult
    \/ CheckBranchFailed
    \/ CheckPRStatus
    \/ Unmount

SpecPolling == Init /\ [][NextPolling]_vars

(* ---------------------- the update card (UpdateCard) ------------------- *)
OtherRuns ==
    UNION {[1..n -> [status : Statuses]] : n \in 0..MaxOthers}

(* update.integration_statuses: this Run and the other Runs of the update. *)
integrationStatuses == <<run>> \o others

completedCount(statuses) ==
    Cardinality({i \in DOMAIN statuses :
                   \/ statuses[i].status = "complete"
                   \/ statuses[i].status = "skipped"
                   \/ statuses[i].status = "ready_to_merge"})

totalCount(statuses) == Len(statuses)

(* (completedCount / totalCount) * 100, kept as the fraction <<num, den>>. *)
progressPercent(statuses) ==
    IF totalCount(statuses) > 0
    THEN <<completedCount(statuses) * 100, totalCount(statuses)>>
    ELSE <<0, 1>>

SamePercent(p, q) == p[1] * q[2] = q[1] * p[2]

(* An update with up to MaxOthers further Runs in any status. *)
InitCard ==
    /\ run = NewRun
    /\ manual = {}
    /\ message = ""
    /\ pendingMessage = Null
    /\ waitingForUpdate = FALSE
    /\ lastCommitSha = Null
    /\ followup = Null
    /\ baselinePending = FALSE
    /\ branchCalls = {}
    /\ mounted = TRUE
    /\ others \in OtherRuns
    /\ lastAction = Act("Init", "init", "")

(* The ['updates'] query delivers a new status of one of the other Runs. *)
OtherRunChanges ==
    /\ \E i \in DOMAIN others, st \in Statuses :
          /\ st # others[i].status
          /\ others' = [others EXCEPT ![i].status = st]
    /\ lastAction' = Act("OtherRunChanges", "auto", "")
    /\ UNCHANGED <<run, manual, panelVars>>

(* The card of an update whose Runs are launched, stopped, skipped and     *)
(* completed.                                                               *)
NextCard ==
    \/ StartAgents
    \/ Stop
    \/ Skip
    \/ Complete
    \/ OtherRunChanges

SpecCard == InitCard /\ [][NextCard]_vars

(* ======================= lifecycle claims ============================== *)
StatusChanged == run'.status # run.status

C2_Sticky ==
    [][(run.pr_merged /\ ~run'.pr_merged) \/ (run.pr_closed /\ ~run'.pr_closed)
          => lastAction'.name = "Reopen"]_vars

(* pr_merged was set by a PR signal and a later PR signal reporting an open *)
(* PR has been merged into the Run.                                         *)
C2_Witness ==
    /\ run.pr_merged
    /\ manual = {}
    /\ lastAction.name = "PRSignal"
    /\ lastAction.arg = "open"

C4_Exclusive == ~(run.pr_merged /\ run.pr_closed)

BranchReportsX == [branch_exists |-> TRUE, pr_url |-> "X"]

AgentAsks ==
    [question |-> "q", finished |-> FALSE,
     branch_name |-> run.cursor_branch_name, conversation |-> run.conversation]

AgentThenBranch ==
    MergeBranchSignal(MergeAgentSignal(run, manual, AgentAsks), manual, BranchReportsX)

BranchThenAgent ==
    MergeAgentSignal(MergeBranchSignal(run, manual, BranchReportsX), manual, AgentAsks)

C9_TerminalFrozen ==
    [][(Terminal(run.status) /\ run' # run) => lastAction'.kind = "manual"]_vars

(* A PR signal reporting the merge reached a cancelled Run. *)
C9_Witness ==
    /\ run.status = "cancelled"
    /\ lastAction.name = "PRSignal"
    /\ lastAction.arg = "merged"
    /\ ~run.pr_merged
    /\ manual = {}

(* ========================= panel claims ================================ *)
PendingCopies ==
    {i \in DOMAIN displayMessages : displayMessages[i] = UserMsg(pendingMessage)}

(* C5: whenever the server conversation contains a user message with the    *)
(* text of the pending follow-up, the displayed conversation shows exactly  *)
(* one copy of that message.                                                *)
C5_OneCopy == PendingConfirmed => Cardinality(PendingCopies) = 1

WaitingWithBaseline == waitingForUpdate /\ lastCommitSha # Null

PollReturned(sha) ==
    lastAction'.name = "CheckBranchResult" /\ lastAction'.arg = sha

WaitingState == <<waitingForUpdate, lastCommitSha, pendingMessage>>

FetchFailed ==
    \/ lastAction'.name = "CheckBranchFailed"
    \/ lastAction'.name = "CheckPRStatus" /\ lastAction'.arg \in {"error", "denied"}

(* C11: a failed branch-status or PR-status fetch leaves the Run and the    *)
(* panel's waitingForUpdate, lastCommitSha and pendingMessage unchanged,    *)
(* and the loop it belongs to stays scheduled: a branch loop that was       *)
(* active is active with no call in flight, a PR loop that was active is    *)
(* still active.                                                            *)
C11_FailedFetchIsNoInformation ==
    [][FetchFailed =>
          /\ run' = run
          /\ WaitingState' = WaitingState
          /\ run'.status \in Statuses
          /\ BranchPollingActive => (BranchPollingActive' /\ branchCalls' = {})
          /\ PRPollingActive => PRPollingActive']_vars

(* A branch fetch failed while waiting mode was active with a baseline, and *)
(* waiting mode, baseline and overlay are still there.                      *)
C11_Witness ==
    /\ lastAction.name = "CheckBranchFailed"
    /\ waitingForUpdate
    /\ lastCommitSha = "s1"
    /\ pendingMessage # Null
    /\ BranchPollingActive
    /\ branchCalls = {}

(* ========================= polling claims ============================== *)
FetchStarted == lastAction'.name \in {"CheckBranchStart", "CheckPRStatus"}

LoopsCancelled == ~BranchLoopScheduled /\ ~PRLoopScheduled

(* C12: while the Run is complete or cancelled, or the view is torn down,   *)
(* neither the branch loop nor the PR loop is scheduled and no fetch is     *)
(* started; tearing down the view of a Run whose loops are already          *)
(* cancelled changes nothing but the view, and the step that cancels the    *)
(* loops leaves the Run as one whole operation left it.                     *)
C12_CancelledTogether ==
    [][/\ (Terminal(run.status) \/ ~mounted) => (LoopsCancelled /\ ~FetchStarted)
       /\ (Terminal(run'.status) \/ ~mounted') => LoopsCancelled'
       /\ (LoopsCancelled /\ lastAction'.name = "Unmount") =>
             (LoopsCancelled' /\ run' = run /\ branchCalls' = branchCalls)]_vars

(* The Run was stopped while a branch fetch was in flight and a PR-less     *)
(* branch was being polled: both loops are gone.                            *)
C12_Witness ==
    /\ lastAction.name = "Stop"
    /\ run.status = "cancelled"
    /\ run.cursor_branch_name # Null
    /\ run.pr_url = Null
    /\ branchCalls # {}
    /\ mounted
    /\ LoopsCancelled

BranchStopCondition == run.pr_url # Null

PRStopCondition == run.pr_merged

(* C13 as stated: a loop stops permanently once its stop condition is true. *)
(* A loop that is scheduled fetches (the branch effect calls checkBranch at  *)
(* once, the PR interval fires after its period), so a permanent stop means  *)
(* that no step out of a state in which the Run has a pr_url leaves the      *)
(* branch loop scheduled, and no step out of a state in which pr_merged is   *)
(* true leaves the PR loop scheduled, whatever signal or override the step   *)
(* is.                                                                       *)
C13_StopsPermanently ==
    [][/\ BranchStopCondition => ~BranchLoopScheduled'
       /\ PRStopCondition => ~PRLoopScheduled']_vars

(* C13 amended: in every state in which a loop's stop condition holds that  *)
(* loop starts no fetch, and a stop condition that holds is made false      *)
(* again only by a manual override, never by an automatic signal or a       *)
(* command.                                                                 *)
C13_StopsWhileConditionHolds ==
    [][/\ BranchStopCondition => lastAction'.name # "CheckBranchStart"
       /\ PRStopCondition => lastAction'.name # "CheckPRStatus"
       /\ (BranchStopCondition /\ ~BranchStopCondition') =>
             lastAction'.kind = "manual"
       /\ (PRStopCondition /\ ~PRStopCondition') =>
             lastAction'.name = "Reopen"]_vars

(* A branch signal recorded the PR of a Run that waits for an answer: the   *)
(* status alone would keep the branch loop, the pr_url has stopped it.      *)
C13_Witness ==
    /\ lastAction.name = "BranchSignal"
    /\ run.pr_url = "X"
    /\ run.status = "needs_review"
    /\ run.cursor_branch_name # Null
    /\ mounted
    /\ ~BranchLoopScheduled
    /\ PRLoopScheduled

(* ===================== follow-up claims (panel) ======================== *)
FollowupStep ==
    lastAction'.name \in {"FollowupDelivered", "FollowupFailed"}

AgentBranchOrders(f) ==
    \A a \in AgentSignals(run), b \in BranchSignals :
        MergeBranchSignal(MergeAgentSignal(run, manual, a), manual, b)[f]
          = MergeAgentSignal(MergeBranchSignal(run, manual, b), manual, a)[f]

AgentPROrders(f) ==
    \A a \in AgentSignals(run), p \in PrSignals :
        MergePRSignal(MergeAgentSignal(run, manual, a), manual, p)[f]
          = MergeAgentSignal(MergePRSignal(run, manual, p), manual, a)[f]

BranchPROrders(f) ==
    \A b \in BranchSignals, p \in PrSignals :
        MergePRSignal(MergeBranchSignal(run, manual, b), manual, p)[f]
          = MergeBranchSignal(MergePRSignal(run, manual, p), manual, b)[f]

FactFields ==
    {"pr_url", "pr_merged", "pr_closed", "agent_question", "conversation",
     "cursor_branch_name"}

PRFields == {"pr_url", "pr_merged", "pr_closed"}

Step(name) == lastAction'.name = name

(* C16: without manual overrides, each step of the scenario has the stated  *)
(* effect from the state the scenario is in: launch takes pending to        *)
(* in_progress; an agent question takes in_progress to needs_review with    *)
(* the question set; the follow-up takes needs_review to in_progress with   *)
(* the question cleared; the branch signal that finds the PR takes          *)
(* in_progress to ready_to_merge; the PR signal reporting the merge takes   *)
(* ready_to_merge to complete with pr_merged = TRUE.                        *)
C16_Scenario ==
    [][manual = {} =>
          /\ (run = NewRun /\ Step("StartAgents")) =>
                (run'.status = "in_progress" /\ run'.agent_question = Null)
          /\ (run.status = "in_progress" /\ Step("AgentSignal")
                /\ run'.agent_question # Null) =>
                run'.status = "needs_review"
          /\ (run.status = "needs_review" /\ Step("FollowupCommand")) =>
                (run'.status = "in_progress" /\ run'.agent_question = Null)
          /\ (run.status = "in_progress" /\ run.agent_question = Null
                /\ run.pr_url = Null /\ ~run.pr_merged /\ ~run.pr_closed
                /\ Step("BranchSignal") /\ run'.pr_url # Null) =>
                run'.status = "ready_to_merge"
          /\ (run.status = "ready_to_merge" /\ ~run.pr_closed
                /\ Step("PRSignal") /\ lastAction'.arg = "merged") =>
                (run'.status = "complete" /\ run'.pr_merged)]_vars

(* The end of the scenario: the Run of an answered agent, completed by the  *)
(* PR signal that reported the merge.                                       *)
C16_Witness ==
    /\ lastAction.name = "PRSignal"
    /\ lastAction.arg = "merged"
    /\ run.status = "complete"
    /\ run.pr_merged
    /\ ~run.pr_closed
    /\ run.pr_url = "X"
    /\ run.agent_question = Null
    /\ run.cursor_agent_id # Null
    /\ manual = {}

(* ================== overlay and waiting mode claims ==================== *)
(* The send has just succeeded: the canonical conversation is still the one *)
(* from before the send, no refresh has happened yet.                       *)
JustSent == lastAction.name = "FollowupDelivered"

(* C17: the overlay is discarded only when the canonical conversation       *)
(* contains the message its follow-up created; so the effect that runs      *)
(* right after the send, before any refresh, keeps the overlay, also when   *)
(* an older canonical user message has the same text.                       *)
C17_DiscardOnlyWhenConfirmed ==
    [][(JustSent /\ pendingMessage # Null /\ Step("ConversationEffect")) =>
          pendingMessage' = pendingMessage]_vars

(* C18: a conversation refresh clears waiting mode only for an assistant    *)
(* message produced after the send; so the effect that runs right after     *)
(* the send, before any refresh, keeps waiting mode, also when an assistant *)
(* message was already the last canonical entry.                            *)
C18_ClearOnlyForLaterReply ==
    [][(JustSent /\ waitingForUpdate /\ Step("ConversationEffect")) =>
          waitingForUpdate']_vars

(* C19: whenever waiting mode is active with a recorded baseline, for a Run *)
(* that has a branch and to which a follow-up can be sent (ready_to_merge   *)
(* and a Run with a pr_url included), the branch polling loop is scheduled, *)
(* so that a new commit is eventually seen.                                 *)
C19_PolledWhileWaiting ==
    (/\ mounted
     /\ waitingForUpdate /\ lastCommitSha # Null
     /\ run.cursor_branch_name # Null
     /\ showConversationInput /\ FollowupAllowed(run)) => BranchLoopScheduled

(* C20: the baseline SHA is recorded before the follow-up is sent and       *)
(* before waiting mode is entered: in no state is waiting mode active       *)
(* without a recorded baseline.                                             *)
C20_BaselineBeforeWaiting == waitingForUpdate => lastCommitSha # Null

(* ===================== follow-up claims (backend) ====================== *)
(* C21: the step that accepts a follow-up for a needs_review Run leaves the *)
(* Run in_progress with agent_question null; that step is the submission    *)
(* itself, not the merge of an agent signal, and afterwards a question is   *)
(* set again by an agent signal only.                                       *)
C21_ClearedAtSubmission ==
    [][/\ (run.status = "needs_review" /\ Step("FollowupDelivered")) =>
             (run'.status = "in_progress" /\ run'.agent_question = Null)
       /\ (run.agent_question = Null /\ run'.agent_question # Null) =>
             Step("AgentSignal")]_vars

(* A follow-up for a needs_review Run has just been accepted: the Run is    *)
(* in_progress without question and no agent signal has been merged since.  *)
C21_Witness ==
    /\ lastAction.name = "FollowupDelivered"
    /\ lastAction.arg = "needs_review"
    /\ run.status = "in_progress"
    /\ run.agent_question = Null
    /\ waitingForUpdate

(* ===================== manual controls claims ========================== *)
QuestionOnlyInNeedsReview ==
    run.agent_question # Null => run.status = "needs_review"

(* C22: agent_question is non-null only while the status is needs_review,   *)
(* and this is kept by every manual quick action and by Stop: a quick       *)
(* action or command applied to a Run for which it holds gives a Run for    *)
(* which it holds.                                                          *)
C22_QuestionOnlyInNeedsReview ==
    [][(QuestionOnlyInNeedsReview /\ lastAction'.kind \in {"manual", "command"})
          => QuestionOnlyInNeedsReview']_vars

(* C23: the Reopen action is offered for every cancelled Run (and applying  *)
(* it writes pr_merged = false, pr_closed = false, status = ready_to_merge  *)
(* and nothing else).                                                       *)
C23_ReopenForEveryCancelled ==
    /\ run.status = "cancelled" => ReopenOffered
    /\ lastAction.name = "Reopen" =>
          (~run.pr_merged /\ ~run.pr_closed /\ run.status = "ready_to_merge")

(* C24: from every non-terminal status the explicit stop action is          *)
(* available (and moves the Run to cancelled); stated for the Runs that     *)
(* have an agent to stop.                                                   *)
C24_StopFromEveryNonTerminal ==
    /\ (run.status \in NonTerminalStatuses /\ run.cursor_agent_id # Null)
          => StopOffered
    /\ lastAction.name = "Stop" => run.status = "cancelled"

(* ======================= failure claims ================================ *)
(* C25: when the PR client fails permanently (credential missing or         *)
(* revoked) its polling loop stops, the branch loop is left as it is, and   *)
(* the Run keeps its last known values.                                     *)
C25_PermanentFailureStopsLoop ==
    [][(Step("CheckPRStatus") /\ lastAction'.arg = "denied") =>
          /\ ~PRLoopScheduled'
          /\ BranchLoopScheduled' = BranchLoopScheduled
          /\ run' = run]_vars

(* ========================= progress claims ============================= *)
WithStatus(statuses, i, st) == [statuses EXCEPT ![i].status = st]

(* C26: in the progress of an update a skipped Run and a cancelled Run      *)
(* count the same: replacing one skipped Run of the list by a cancelled     *)
(* one, or one cancelled Run by a skipped one, leaves completedCount and    *)
(* progressPercent unchanged.                                               *)
C26_SkippedLikeCancelled ==
    \A i \in DOMAIN integrationStatuses :
        LET l == integrationStatuses
            swapped == WithStatus(l, i, IF l[i].status = "skipped"
                                        THEN "cancelled" ELSE "skipped")
        IN l[i].status \in {"skipped", "cancelled"} =>
              /\ completedCount(swapped) = completedCount(l)
              /\ SamePercent(progressPercent(swapped), progressPercent(l))

(* ================== overlay text and stale polls ======================= *)
(* C27: the text of the optimistic overlay equals the text that was sent to *)
(* the server for that follow-up, for every input, also one with leading    *)
(* or trailing whitespace and one edited while the send was in flight (so   *)
(* that the canonical copy of the sent message discards the overlay).       *)
C27_OverlayIsSentText ==
    [][Step("FollowupDelivered") => pendingMessage' = followup]_vars

(* C28: a branch poll result is compared against the baseline SHA and the   *)
(* waiting flag that are current when it arrives: a result that ends        *)
(* waiting mode differs from the baseline recorded at that moment, so a     *)
(* fetch started under an older baseline never ends the waiting mode of a   *)
(* later follow-up; and no result changes the panel after the view closed.  *)
C28_ComparedAgainstCurrent ==
    [][Step("CheckBranchResult") =>
          /\ (waitingForUpdate /\ ~waitingForUpdate') =>
                (lastCommitSha # Null /\ lastAction'.arg # lastCommitSha)
          /\ ~mounted =>
                (waitingForUpdate' = waitingForUpdate
                   /\ lastCommitSha' = lastCommitSha)]_vars

(* C29: a failed send leaves the panel as it was: no overlay is created,    *)
(* waiting mode is not entered, no baseline SHA is recorded or awaited, the *)
(* typed input is kept, and the Run is unchanged.                           *)
C29_FailedSendChangesNothing ==
    [][Step("FollowupFailed") =>
          /\ message' = message
          /\ pendingMessage' = pendingMessage
          /\ waitingForUpdate' = waitingForUpdate
          /\ lastCommitSha' = lastCommitSha
          /\ baselinePending' = baselinePending
          /\ run' = run]_vars

(* The send of a typed follow-up to a Run with a running agent has failed:  *)
(* the text is still in the input and nothing else has been created.        *)
C29_Witness ==
    /\ lastAction.name = "FollowupFailed"
    /\ ~Terminal(run.status)
    /\ message = " a"
    /\ pendingMessage = Null
    /\ ~waitingForUpdate
    /\ lastCommitSha = Null
    /\ ~baselinePending

(* C30: while an overlay is pending and not yet confirmed, the displayed    *)
(* conversation contains the pending message exactly once, whatever the     *)
(* canonical conversation is, also when it is empty or holds no user        *)
(* message.                                                                 *)
C30_PendingShownOnce ==
    (pendingMessage # Null /\ ~PendingConfirmed) => Cardinality(PendingCopies) = 1

====
